---- MODULE Spec2Model ----
(***************************************************************************)
(* Model of the duration_helper crate (src/src/lib.rs): the trait          *)
(* DurationHelper implemented for u64 and for f64, each method building a  *)
(* std::time::Duration.                                                    *)
(*                                                                         *)
(* TLC's integers are 32 bits wide, while the program works on u64, u32,   *)
(* and f64 values.  Wide naturals are therefore sequences of limbs in base *)
(* 2^8, least significant limb first, without leading zero limbs (zero is  *)
(* the empty sequence), so that two naturals are equal exactly when their  *)
(* sequences are.  An f64 is a record: NaN, an infinity, or the number     *)
(* (-1)^neg * m * 2^e with m a natural of at most 53 bits.                 *)
(***************************************************************************)
EXTENDS Integers, Sequences, FiniteSets, TLC

VARIABLES pc, build, operand, method, result

vars == <<pc, build, operand, method, result>>

---------------------------------------------------------------------------
(* Wide naturals.                                                          *)

LimbBits == 4 + 4
Base == 2 ^ LimbBits

RECURSIVE BNorm(_)
BNorm(a) ==
    IF a = <<>> THEN <<>>
    ELSE IF a[Len(a)] = 0 THEN BNorm(SubSeq(a, 1, Len(a) - 1))
    ELSE a

RECURSIVE BFromInt(_)
BFromInt(n) ==
    IF n = 0 THEN <<>> ELSE <<n % Base>> \o BFromInt(n \div Base)

RECURSIVE BAddC(_, _, _)
BAddC(a, b, c) ==
    IF a = <<>> /\ b = <<>> THEN (IF c = 0 THEN <<>> ELSE <<c>>)
    ELSE LET x == IF a = <<>> THEN 0 ELSE a[1]
             y == IF b = <<>> THEN 0 ELSE b[1]
             s == x + y + c
         IN  <<s % Base>> \o
             BAddC(IF a = <<>> THEN <<>> ELSE Tail(a),
                   IF b = <<>> THEN <<>> ELSE Tail(b), s \div Base)

BAdd(a, b) == BAddC(a, b, 0)

\* a - b - c for a >= b + c
RECURSIVE BSubC(_, _, _)
BSubC(a, b, c) ==
    IF a = <<>> THEN <<>>
    ELSE LET y == IF b = <<>> THEN 0 ELSE b[1]
             d == a[1] - y - c
         IN  <<d % Base>> \o
             BSubC(Tail(a), IF b = <<>> THEN <<>> ELSE Tail(b), IF d < 0 THEN 1 ELSE 0)

BSub(a, b) == BNorm(BSubC(a, b, 0))

\* a * k + c for a small k (k, c < 2^22)
RECURSIVE BMulSmallC(_, _, _)
BMulSmallC(a, k, c) ==
    IF a = <<>> THEN BFromInt(c)
    ELSE LET s == a[1] * k + c
         IN  <<s % Base>> \o BMulSmallC(Tail(a), k, s \div Base)

BMulSmall(a, k) == BNorm(BMulSmallC(a, k, 0))

RECURSIVE BMul(_, _)
BMul(a, b) ==
    IF b = <<>> \/ a = <<>> THEN <<>>
    ELSE BAdd(BMulSmall(a, b[1]), BNorm(<<0>> \o BMul(a, Tail(b))))

\* quotient and remainder of a by a small d (d < 2^22), most significant limb first
RECURSIVE BDivSmallR(_, _, _)
BDivSmallR(a, d, r) ==
    IF a = <<>> THEN [q |-> <<>>, r |-> r]
    ELSE LET cur  == r * Base + a[Len(a)]
             rest == BDivSmallR(SubSeq(a, 1, Len(a) - 1), d, cur % d)
         IN  [q |-> rest.q \o <<cur \div d>>, r |-> rest.r]

BDivSmall(a, d) ==
    LET x == BDivSmallR(a, d, 0) IN [q |-> BNorm(x.q), r |-> x.r]

RECURSIVE BLtR(_, _)
BLtR(a, b) ==
    IF a = <<>> THEN FALSE
    ELSE IF a[Len(a)] # b[Len(b)] THEN a[Len(a)] < b[Len(b)]
    ELSE BLtR(SubSeq(a, 1, Len(a) - 1), SubSeq(b, 1, Len(b) - 1))

BLt(a, b) ==
    IF Len(a) # Len(b) THEN Len(a) < Len(b) ELSE BLtR(a, b)

BLe(a, b) == a = b \/ BLt(a, b)

RECURSIVE BitLenInt(_)
BitLenInt(n) == IF n = 0 THEN 0 ELSE 1 + BitLenInt(n \div 2)

BBitLen(a) ==
    IF a = <<>> THEN 0 ELSE LimbBits * (Len(a) - 1) + BitLenInt(a[Len(a)])

\* a * 2^k
BShl(a, k) ==
    IF a = <<>> THEN <<>>
    ELSE [i \in 1..(k \div LimbBits) |-> 0] \o BMulSmall(a, 2 ^ (k % LimbBits))

\* a \div 2^k
BShr(a, k) ==
    IF k \div LimbBits >= Len(a) THEN <<>>
    ELSE BDivSmall(SubSeq(a, (k \div LimbBits) + 1, Len(a)), 2 ^ (k % LimbBits)).q

\* a % 2^k
BLowBits(a, k) ==
    LET full == k \div LimbBits
        part == k % LimbBits
    IN  IF full >= Len(a) THEN a
        ELSE BNorm(SubSeq(a, 1, full) \o
                   (IF part = 0 THEN <<>> ELSE <<a[full + 1] % (2 ^ part)>>))

BPow2(k) == BShl(<<1>>, k)

---------------------------------------------------------------------------
(* std::time::Duration, as lib.rs uses it.  A Duration is the pair         *)
(* (secs: u64, nanos: u32); both fields are kept as wide naturals.         *)

NANOS_PER_SEC == 1000000000
NANOS_PER_MILLI == 1000000
NANOS_PER_MICRO == 1000
MILLIS_PER_SEC == 1000
MICROS_PER_SEC == 1000000

U64Bits == 64
U32Bits == 32
U32MAX == [i \in 1..(U32Bits \div LimbBits) |-> Base - 1]

Duration(secs, nanos) == [kind |-> "duration", secs |-> secs, nanos |-> nanos]

Panic(msg) == [kind |-> "panic", msg |-> msg]

\* a \div NANOS_PER_SEC and a % NANOS_PER_SEC, the divisor taken in two small steps
BDivNanos(a) ==
    LET lo == BDivSmall(a, NANOS_PER_MICRO)
        hi == BDivSmall(lo.q, MICROS_PER_SEC)
    IN  [q |-> hi.q, r |-> BAdd(BMulSmall(BFromInt(hi.r), NANOS_PER_MICRO), BFromInt(lo.r))]

\* Mutation of DurationNew: the nanoseconds are stored without the carry.
DurationNewNoCarry(secs, nanos) == Duration(secs, nanos)

\* Duration::new(secs, nanos): nanoseconds of a second or more carry into secs,
\* and the call panics when the carry overflows u64
DurationNew(secs, nanos) ==
    IF BLt(nanos, BFromInt(NANOS_PER_SEC)) THEN Duration(secs, nanos)
    ELSE LET d == BDivNanos(nanos)
             s == BAdd(secs, d.q)
         IN  IF BBitLen(s) > U64Bits THEN Panic("overflow in Duration::new")
             ELSE Duration(s, d.r)

DurationFromSecs(secs) == Duration(secs, <<>>)

\* Mutation of DurationFromMillis: the remainder is not scaled to nanoseconds.
DurationFromMillisUnscaled(millis) ==
    LET d == BDivSmall(millis, MILLIS_PER_SEC)
    IN  Duration(d.q, BFromInt(d.r))

DurationFromMillis(millis) ==
    LET d == BDivSmall(millis, MILLIS_PER_SEC)
    IN  Duration(d.q, BFromInt(d.r * NANOS_PER_MILLI))

DurationFromMicros(micros) ==
    LET d == BDivSmall(micros, MICROS_PER_SEC)
    IN  Duration(d.q, BFromInt(d.r * NANOS_PER_MICRO))

DurationFromNanos(nanos) ==
    LET d == BDivNanos(nanos) IN Duration(d.q, d.r)

---------------------------------------------------------------------------
(* impl DurationHelper for u64                                             *)

\* k * self in u64.  The product of the literals is folded; the last product
\* overflows u64 for a large self, and then a build with overflow checks
\* ("debug") panics and one without ("release") keeps the low 64 bits.
MulU64(k, self, bld) ==
    LET p == BMul(BFromInt(k), self)
    IN  IF BBitLen(p) <= U64Bits THEN [ok |-> TRUE, v |-> p]
        ELSE IF bld = "debug" THEN [ok |-> FALSE, v |-> <<>>]
        ELSE [ok |-> TRUE, v |-> BLowBits(p, U64Bits)]

FromSecsOf(prod) ==
    IF prod.ok THEN DurationFromSecs(prod.v)
    ELSE Panic("attempt to multiply with overflow")

u64_nanos(self) == DurationFromNanos(self)
u64_micros(self) == DurationFromMicros(self)
u64_millis(self) == DurationFromMillis(self)
u64_secs(self) == DurationFromSecs(self)
u64_hours(self, bld) == FromSecsOf(MulU64(60 * 60, self, bld))
u64_days(self, bld) == FromSecsOf(MulU64(60 * 60 * 24, self, bld))
\* Mutation of u64_weeks: the factor of months.
u64_weeks_AsMonths(self, bld) == FromSecsOf(MulU64(60 * 60 * 24 * 30, self, bld))
u64_weeks(self, bld) == FromSecsOf(MulU64(60 * 60 * 24 * 7, self, bld))
u64_months(self, bld) == FromSecsOf(MulU64(60 * 60 * 24 * 30, self, bld))
u64_years(self, bld) == FromSecsOf(MulU64(60 * 60 * 24 * 365, self, bld))

---------------------------------------------------------------------------
(* f64 values and the f64 operations lib.rs uses: multiplication by a      *)
(* literal, the cast `as u32`, and Duration::from_secs_f64.                *)

MantBits == 53
MaxExp == 1024

F64NaN == [cls |-> "nan", neg |-> FALSE, m |-> <<>>, e |-> 0]
F64Inf(neg) == [cls |-> "inf", neg |-> neg, m |-> <<>>, e |-> 0]
F64Num(neg, m, e) == [cls |-> "num", neg |-> neg, m |-> m, e |-> e]

IsOdd(a) == a # <<>> /\ a[1] % 2 = 1

\* the f64 nearest to (-1)^neg * p * 2^e, ties to the even mantissa; a value
\* of 2^1024 or more is an infinity
F64Round(neg, p, e) ==
    LET len == BBitLen(p)
        s   == len - MantBits
        q   == BShr(p, s)
        rem == BLowBits(p, s)
        up  == BLt(BPow2(s - 1), rem) \/ (rem = BPow2(s - 1) /\ IsOdd(q))
        m   == IF len <= MantBits THEN p
               ELSE IF up THEN BAdd(q, <<1>>) ELSE q
        x   == IF len <= MantBits THEN e ELSE e + s
    IN  IF BBitLen(m) + x > MaxExp THEN F64Inf(neg) ELSE F64Num(neg, m, x)

\* k.0 * self for a literal k.0 > 0 that is a whole number (one rounding: the
\* product of the literals is exact)
F64Mul(k, self) ==
    IF self.cls = "nan" THEN F64NaN
    ELSE IF self.cls = "inf" THEN self
    ELSE F64Round(self.neg, BMul(self.m, BFromInt(k)), self.e)

\* Mutation of F64AsU32: the integer part wraps modulo 2^32 instead of saturating.
F64AsU32Wrapping(self) ==
    IF self.cls # "num" \/ self.neg THEN <<>>
    ELSE IF self.e < 0 THEN BLowBits(BShr(self.m, 0 - self.e), U32Bits)
    ELSE BLowBits(BShl(self.m, self.e), U32Bits)

\* self as u32: NaN and negative values give 0, the fraction is dropped, and a
\* value above u32::MAX gives u32::MAX
F64AsU32(self) ==
    IF self.cls = "nan" THEN <<>>
    ELSE IF self.neg THEN <<>>
    ELSE IF self.cls = "inf" THEN U32MAX
    ELSE IF self.e < 0 THEN
        LET t == BShr(self.m, 0 - self.e)
        IN  IF BLt(U32MAX, t) THEN U32MAX ELSE t
    ELSE IF BBitLen(self.m) + self.e > U32Bits THEN U32MAX
    ELSE BShl(self.m, self.e)

\* Mutation of DurationFromSecsF64: the fraction of a nanosecond is dropped
\* instead of rounded.
DurationFromSecsF64Truncating(secs) ==
    IF secs.cls # "num" THEN Panic("value is either too big or NaN")
    ELSE IF secs.m = <<>> THEN Duration(<<>>, <<>>)
    ELSE IF secs.neg THEN Panic("value is negative")
    ELSE IF BBitLen(secs.m) + secs.e > U64Bits THEN Panic("value is either too big or NaN")
    ELSE IF secs.e >= 0 THEN Duration(BShl(secs.m, secs.e), <<>>)
    ELSE Duration(BShr(secs.m, 0 - secs.e),
                  BShr(BMul(BFromInt(NANOS_PER_SEC), BLowBits(secs.m, 0 - secs.e)),
                       0 - secs.e))

\* Duration::from_secs_f64(secs), as std defines it since Rust 1.63: it panics
\* on a negative, NaN or infinite value and on one of 2^64 seconds or more;
\* otherwise the value is rounded to the nearest nanosecond, ties to even, and
\* a fraction that rounds to a whole second carries.  A value below 2^(-31) s
\* is less than half a nanosecond and gives zero.  exp is the binary exponent
\* of secs; -0.0 is not negative.
DurationFromSecsF64(secs) ==
    IF secs.cls = "nan" THEN Panic("value is either too big or NaN")
    ELSE IF secs.cls = "inf" THEN
        (IF secs.neg THEN Panic("value is negative")
         ELSE Panic("value is either too big or NaN"))
    ELSE IF secs.m = <<>> THEN Duration(<<>>, <<>>)
    ELSE IF secs.neg THEN Panic("value is negative")
    ELSE LET exp == BBitLen(secs.m) + secs.e - 1
         IN  IF exp < 0 - 31 THEN Duration(<<>>, <<>>)
             ELSE IF exp >= U64Bits THEN Panic("value is either too big or NaN")
             ELSE IF secs.e >= 0 THEN Duration(BShl(secs.m, secs.e), <<>>)
             ELSE LET sh    == 0 - secs.e
                      whole == BShr(secs.m, sh)
                      tmp   == BMul(BFromInt(NANOS_PER_SEC), BLowBits(secs.m, sh))
                      nanos == BShr(tmp, sh)
                      rem   == BLowBits(tmp, sh)
                      half  == BPow2(sh - 1)
                      add   == BLt(half, rem) \/ (rem = half /\ IsOdd(nanos))
                      ns    == IF add THEN BAdd(nanos, <<1>>) ELSE nanos
                  IN  IF ns # BFromInt(NANOS_PER_SEC) THEN Duration(whole, ns)
                      ELSE Duration(BAdd(whole, <<1>>), <<>>)

---------------------------------------------------------------------------
(* impl DurationHelper for f64                                             *)

f64_nanos(self) == DurationNew(<<>>, F64AsU32(self))
f64_micros(self) == DurationNew(<<>>, F64AsU32(F64Mul(1000, self)))
\* Mutation of f64_millis: the factor of micros.
f64_millis_AsMicros(self) == DurationNew(<<>>, F64AsU32(F64Mul(1000, self)))
f64_millis(self) == DurationNew(<<>>, F64AsU32(F64Mul(1000000, self)))
f64_secs(self) == DurationFromSecsF64(self)
f64_hours(self) == DurationFromSecsF64(F64Mul(60 * 60, self))
f64_days(self) == DurationFromSecsF64(F64Mul(60 * 60 * 24, self))
f64_weeks(self) == DurationFromSecsF64(F64Mul(60 * 60 * 24 * 7, self))
f64_months(self) == DurationFromSecsF64(F64Mul(60 * 60 * 24 * 30, self))
f64_years(self) == DurationFromSecsF64(F64Mul(60 * 60 * 24 * 365, self))

---------------------------------------------------------------------------
(* The operands of a call.  The sets hold the small values of the crate's  *)
(* tests and the values on both sides of every threshold of the code: the  *)
(* unit boundaries of the Duration constructors, u32::MAX of the cast, the *)
(* 53 bits of an f64 mantissa and the 64 bits of the product.              *)

MaxSmall == 5
MaxDelta == 1
MaxFrac == 7
MaxShift == 2

Around(b) ==
    {BSub(b, BFromInt(1 + d)) : d \in 0..MaxDelta} \cup
    {BAdd(b, BFromInt(d)) : d \in 0..MaxDelta}

Below(b) == {BSub(b, BFromInt(1 + d)) : d \in 0..MaxDelta}

\* the quotients 2^k \div f for the second factors f of hours .. years, each
\* divided in two small steps
Quotients(k) ==
    {BDivSmall(BDivSmall(BPow2(k), 60 * 60).q, g).q : g \in {1, 24, 24 * 7, 24 * 30, 24 * 365}}

Thresholds ==
    {BFromInt(b) : b \in {MILLIS_PER_SEC, MICROS_PER_SEC, NANOS_PER_SEC, 4295, 4294968}}
    \cup {BPow2(U32Bits)}
    \cup {BAdd(q, <<1>>) : q \in Quotients(MantBits)}

WholeInputs ==
    {BFromInt(n) : n \in 0..MaxSmall} \cup {BFromInt(1500), BFromInt(5000)}
    \cup UNION {Around(b) : b \in Thresholds}

U64Inputs ==
    WholeInputs
    \cup UNION {Around(BAdd(q, <<1>>)) : q \in Quotients(U64Bits)}
    \cup Below(BPow2(U64Bits))

\* the f64 values m * 2^(-j) next to zero and next to one, for the rounding
\* of from_secs_f64, whose unit is 2^(-30) s < 1 ns
NearZeroOrOne ==
    UNION {{F64Num(FALSE, m, 0 - j) : m \in {BFromInt(1 + d) : d \in 0..MaxDelta}
                                          \cup Below(BPow2(j))}
           : j \in {30, 31, 32}}

\* 0.1, 0.29, 2.7, 4.2e-7, 0.999e-9, 3e10, 1e20, f64::MAX
Literals ==
    { F64Num(FALSE, <<205, 204, 204, 204, 204, 204, 12>>, -55),
      F64Num(FALSE, <<143, 194, 245, 40, 92, 143, 18>>, -54),
      F64Num(FALSE, <<205, 204, 204, 204, 204, 204, 10>>, -50),
      F64Num(FALSE, <<3, 238, 55, 226, 226, 11, 7>>, -72),
      F64Num(FALSE, <<141, 69, 227, 0, 211, 148, 8>>, -81),
      F64Num(FALSE, <<235, 8, 191, 1>>, 10),
      F64Num(FALSE, <<49, 214, 226, 117, 188, 86>>, 20),
      F64Num(FALSE, <<255, 255, 255, 255, 255, 255, 31>>, 971) }

F64Inputs ==
    {F64Num(FALSE, n, 0) : n \in WholeInputs}
    \cup {F64Num(FALSE, BFromInt(k), 0 - j) : k \in 1..MaxFrac, j \in 1..MaxShift}
    \cup NearZeroOrOne
    \cup Literals
    \cup {F64Num(FALSE, m, U64Bits - MantBits) : m \in Below(BPow2(MantBits))}
    \cup {F64Num(FALSE, <<1>>, U64Bits)}
    \cup {F64Num(TRUE, <<>>, 0), F64Num(TRUE, <<1>>, 0), F64Num(TRUE, <<1>>, 0 - 1),
          F64NaN, F64Inf(FALSE), F64Inf(TRUE)}

\* an operand is a u64 (field n) or an f64 (field f); the other field is unused
Operands ==
    {[ty |-> "u64", n |-> n, f |-> F64NaN] : n \in U64Inputs} \cup
    {[ty |-> "f64", n |-> <<>>, f |-> f] : f \in F64Inputs}

---------------------------------------------------------------------------
(* One call of one method on one operand.                                  *)

TypeOK ==
    /\ pc \in {"start", "done"}
    /\ build \in {"debug", "release"}
    /\ operand \in Operands
    /\ result.kind \in {"none", "duration", "panic"}

Init ==
    /\ pc = "start"
    /\ build \in {"debug", "release"}
    /\ operand \in Operands
    /\ method = "none"
    /\ result = [kind |-> "none"]

\* the call returns res, or ends in the panic res
Returns(name, res) ==
    /\ pc' = "done"
    /\ method' = name
    /\ result' = res
    /\ UNCHANGED <<build, operand>>

U64Nanos ==
    /\ pc = "start"
    /\ operand.ty = "u64"
    /\ Returns("nanos", u64_nanos(operand.n))

U64Micros ==
    /\ pc = "start"
    /\ operand.ty = "u64"
    /\ Returns("micros", u64_micros(operand.n))

U64Millis ==
    /\ pc = "start"
    /\ operand.ty = "u64"
    /\ Returns("millis", u64_millis(operand.n))

U64Secs ==
    /\ pc = "start"
    /\ operand.ty = "u64"
    /\ Returns("secs", u64_secs(operand.n))

U64Hours ==
    /\ pc = "start"
    /\ operand.ty = "u64"
    /\ Returns("hours", u64_hours(operand.n, build))

U64Days ==
    /\ pc = "start"
    /\ operand.ty = "u64"
    /\ Returns("days", u64_days(operand.n, build))

U64Weeks ==
    /\ pc = "start"
    /\ operand.ty = "u64"
    /\ Returns("weeks", u64_weeks(operand.n, build))

U64Months ==
    /\ pc = "start"
    /\ operand.ty = "u64"
    /\ Returns("months", u64_months(operand.n, build))

U64Years ==
    /\ pc = "start"
    /\ operand.ty = "u64"
    /\ Returns("years", u64_years(operand.n, build))

F64Nanos ==
    /\ pc = "start"
    /\ operand.ty = "f64"
    /\ Returns("nanos", f64_nanos(operand.f))

F64Micros ==
    /\ pc = "start"
    /\ operand.ty = "f64"
    /\ Returns("micros", f64_micros(operand.f))

F64Millis ==
    /\ pc = "start"
    /\ operand.ty = "f64"
    /\ Returns("millis", f64_millis(operand.f))

F64Secs ==
    /\ pc = "start"
    /\ operand.ty = "f64"
    /\ Returns("secs", f64_secs(operand.f))

F64Hours ==
    /\ pc = "start"
    /\ operand.ty = "f64"
    /\ Returns("hours", f64_hours(operand.f))

F64Days ==
    /\ pc = "start"
    /\ operand.ty = "f64"
    /\ Returns("days", f64_days(operand.f))

F64Weeks ==
    /\ pc = "start"
    /\ operand.ty = "f64"
    /\ Returns("weeks", f64_weeks(operand.f))

F64Months ==
    /\ pc = "start"
    /\ operand.ty = "f64"
    /\ Returns("months", f64_months(operand.f))

F64Years ==
    /\ pc = "start"
    /\ operand.ty = "f64"
    /\ Returns("years", f64_years(operand.f))

Next ==
    \/ U64Nanos \/ U64Micros \/ U64Millis \/ U64Secs \/ U64Hours
    \/ U64Days \/ U64Weeks \/ U64Months \/ U64Years
    \/ F64Nanos \/ F64Micros \/ F64Millis \/ F64Secs \/ F64Hours
    \/ F64Days \/ F64Weeks \/ F64Months \/ F64Years

Spec == Init /\ [][Next]_vars

---------------------------------------------------------------------------
(* Vocabulary of the properties.                                           *)

SubSecond == {"nanos", "micros", "millis"}
LargeUnits == {"hours", "days", "weeks", "months", "years"}
SecondOrLarger == {"secs"} \cup LargeUnits

\* seconds per unit, as the specification's table gives them
Factor(unit) ==
    CASE unit = "secs" -> 1
      [] unit = "hours" -> 3600
      [] unit = "days" -> 86400
      [] unit = "weeks" -> 604800
      [] unit = "months" -> 2592000
      [] unit = "years" -> 31536000

\* nanoseconds per sub-second unit
NanosPerUnit(unit) ==
    CASE unit = "nanos" -> 1
      [] unit = "micros" -> 1000
      [] unit = "millis" -> 1000000

Returned == pc = "done" /\ result.kind = "duration"

DoneU64(units) == pc = "done" /\ operand.ty = "u64" /\ method \in units
DoneF64(units) == pc = "done" /\ operand.ty = "f64" /\ method \in units

\* the length of a Duration in nanoseconds
TotalNanos(d) == BAdd(BMul(d.secs, BFromInt(NANOS_PER_SEC)), d.nanos)

Finite(f) == f.cls = "num"
NonNegative(f) == f.cls = "num" /\ (~f.neg \/ f.m = <<>>)

\* the integer part of a finite f64 >= 0
TruncNat(f) == IF f.e >= 0 THEN BShl(f.m, f.e) ELSE BShr(f.m, 0 - f.e)

IsWhole(f) == f.e >= 0 \/ BLowBits(f.m, 0 - f.e) = <<>>

\* f is n as f64 for some u64 n
IsU64(f) == NonNegative(f) /\ IsWhole(f) /\ BBitLen(f.m) + f.e <= U64Bits

BMin(a, b) == IF BLt(a, b) THEN a ELSE b

\* the f64 product f * nanos_per_unit of the fractional sub-second path
ScaledNanos(f, unit) ==
    IF unit = "nanos" THEN f ELSE F64Mul(NanosPerUnit(unit), f)

\* clamp(trunc(x), 0, 4_294_967_295), with NaN taken to 0
ClampedNanos(x) ==
    IF x.cls = "nan" THEN <<>>
    ELSE IF x.neg THEN <<>>
    ELSE IF x.cls = "inf" THEN U32MAX
    ELSE BMin(TruncNat(x), U32MAX)

\* the whole-number method of the same name
U64Method(name, n, bld) ==
    CASE name = "nanos" -> u64_nanos(n)
      [] name = "micros" -> u64_micros(n)
      [] name = "millis" -> u64_millis(n)
      [] name = "secs" -> u64_secs(n)
      [] name = "hours" -> u64_hours(n, bld)
      [] name = "days" -> u64_days(n, bld)
      [] name = "weeks" -> u64_weeks(n, bld)
      [] name = "months" -> u64_months(n, bld)
      [] name = "years" -> u64_years(n, bld)

---------------------------------------------------------------------------
(* The claims.                                                             *)

\* C1: for every u64 operand n and every unit of one second or larger, the
\* returned interval has seconds = n * factor(unit) and subsecond_nanos = 0.
\* Fails in a build without overflow checks once n * factor(unit) >= 2^64:
\* the interval returned holds the product modulo 2^64.
C1_SecondsAreTheProduct ==
    (DoneU64(SecondOrLarger) /\ result.kind = "duration") =>
        /\ result.secs = BMul(operand.n, BFromInt(Factor(method)))
        /\ result.nanos = <<>>

\* C2: every interval any of the 18 conversions returns has its
\* subsecond_nanos field in [0, 999_999_999].
C2_NanosNormalized ==
    Returned => BLt(result.nanos, BFromInt(NANOS_PER_SEC))

\* C2 witness: 1500.0.millis() has returned, its 1_500_000_000 ns carried.
C2_Witness ==
    /\ Returned
    /\ DoneF64({"millis"})
    /\ operand.f = F64Num(FALSE, BFromInt(1500), 0)
    /\ result.secs = <<1>>
    /\ result.nanos = BFromInt(500000000)

\* C3 (as stated): on the fractional sub-second path, when the truncated
\* nanosecond value is >= 1_000_000_000 the result has seconds = 0 and the
\* sub-second field holds that value as it is.  Stated for the values the
\* u32 field can hold, up to 4_294_967_295.
C3_StoredWithoutCarry ==
    (/\ DoneF64(SubSecond)
     /\ NonNegative(ScaledNanos(operand.f, method))
     /\ BLe(BFromInt(NANOS_PER_SEC), TruncNat(ScaledNanos(operand.f, method)))
     /\ BLe(TruncNat(ScaledNanos(operand.f, method)), U32MAX)) =>
        /\ result.kind = "duration"
        /\ result.secs = <<>>
        /\ result.nanos = TruncNat(ScaledNanos(operand.f, method))

\* C3 (amended): on the fractional sub-second path, when the truncated
\* nanosecond value v is >= 1_000_000_000 the excess is carried into the
\* seconds field: with c = min(v, 4_294_967_295), seconds = c div 10^9, which
\* is at least 1, and subsecond_nanos = c mod 10^9.
C3_ExcessIsCarried ==
    (/\ DoneF64(SubSecond)
     /\ NonNegative(ScaledNanos(operand.f, method))
     /\ BLe(BFromInt(NANOS_PER_SEC), TruncNat(ScaledNanos(operand.f, method)))) =>
        /\ result.kind = "duration"
        /\ result.secs # <<>>
        /\ BLt(result.nanos, BFromInt(NANOS_PER_SEC))
        /\ TotalNanos(result) = BMin(TruncNat(ScaledNanos(operand.f, method)), U32MAX)

\* C3 witness: 1_000_000.0.micros() has returned one second and no nanoseconds.
C3_Witness ==
    /\ DoneF64({"micros"})
    /\ operand.f = F64Num(FALSE, BFromInt(MICROS_PER_SEC), 0)
    /\ result = Duration(<<1>>, <<>>)

\* C4: on the fractional sub-second path, for every non-negative operand f the
\* nanosecond amount of the result is f * nanos_per_unit (the f64 product)
\* truncated toward zero.  Fails once the product passes u32::MAX.
C4_TruncatedProduct ==
    (DoneF64(SubSecond) /\ NonNegative(operand.f)) =>
        /\ result.kind = "duration"
        /\ TotalNanos(result) = TruncNat(ScaledNanos(operand.f, method))

\* C5 (as stated): on the fractional path for units of one second or larger,
\* with total = f * factor(unit), the result has seconds = the integer part
\* of total and subsecond_nanos = the fraction of total times 10^9, truncated
\* toward zero, below 10^9.
C5_FractionTruncated ==
    (DoneF64(SecondOrLarger) /\ result.kind = "duration") =>
        LET total == F64Mul(Factor(method), operand.f)
            sh    == 0 - total.e
        IN  /\ result.secs = TruncNat(total)
            /\ BLt(result.nanos, BFromInt(NANOS_PER_SEC))
            /\ result.nanos =
                 IF total.e >= 0 THEN <<>>
                 ELSE BShr(BMul(BLowBits(total.m, sh), BFromInt(NANOS_PER_SEC)), sh)

\* C5 (amended): on the fractional path for units of one second or larger,
\* with total = f * factor(unit), the result is total rounded to the nearest
\* nanosecond, ties to the even nanosecond: N = seconds * 10^9 +
\* subsecond_nanos has |N - total * 10^9| <= 1/2, and N is even when the
\* distance is 1/2; subsecond_nanos < 10^9, so a fraction that rounds up to a
\* whole second carries into seconds; a whole total gives (total, 0).
C5_RoundedToNearest ==
    (DoneF64(SecondOrLarger) /\ result.kind = "duration") =>
        LET total == F64Mul(Factor(method), operand.f)
            sh    == 0 - total.e
            N     == TotalNanos(result)
            exact == BMul(total.m, BFromInt(NANOS_PER_SEC))
            got   == BShl(N, sh)
            half  == BPow2(sh - 1)
        IN  /\ BLt(result.nanos, BFromInt(NANOS_PER_SEC))
            /\ IsWhole(total) =>
                 result = Duration(TruncNat(total), <<>>)
            /\ total.e < 0 =>
                 /\ BLe(got, BAdd(exact, half))
                 /\ BLe(exact, BAdd(got, half))
                 /\ (got = BAdd(exact, half) \/ exact = BAdd(got, half)) => ~IsOdd(N)

\* C5 witness: (1 - 2^(-31)).secs() has returned; its 999_999_999.53 ns round
\* up to one whole second.
C5_Witness ==
    /\ DoneF64({"secs"})
    /\ operand.f = F64Num(FALSE, BSub(BPow2(31), <<1>>), 0 - 31)
    /\ result = Duration(<<1>>, <<>>)

\* C6: on the whole-number path for sub-second units the result is exactly n
\* units: seconds * 10^9 + subsecond_nanos = n * nanos_per_unit, with
\* subsecond_nanos < 10^9.
C6_ExactScaling ==
    DoneU64(SubSecond) =>
        /\ result.kind = "duration"
        /\ BLt(result.nanos, BFromInt(NANOS_PER_SEC))
        /\ TotalNanos(result) = BMul(operand.n, BFromInt(NanosPerUnit(method)))

\* C6 witness: 1001.millis() has returned one second and one millisecond.
C6_Witness ==
    /\ DoneU64({"millis"})
    /\ operand.n = BFromInt(1001)
    /\ result = Duration(<<1>>, BFromInt(NANOS_PER_MILLI))

\* C7: on the whole-number path for hours .. years, when n * factor(unit)
\* exceeds the u64 range the conversion never returns the wrapped value
\* (n * factor) mod 2^64 as an ordinary interval.
C7_NeverTheWrappedValue ==
    LET product == BMul(operand.n, BFromInt(Factor(method)))
    IN  (DoneU64(LargeUnits) /\ BBitLen(product) > U64Bits /\ result.kind = "duration")
            => result.secs # BLowBits(product, U64Bits)

\* C8: every conversion returns an interval for every non-negative operand,
\* u64 or f64, with every unit; none ends in a panic.
C8_NoPanic ==
    (pc = "done" /\ (operand.ty = "f64" => NonNegative(operand.f))) =>
        result.kind = "duration"

\* C9: the two paths agree on whole-valued operands: for a whole n,
\* (n as f64).unit() = n.unit() for every unit of one second or larger with
\* n * factor(unit) < 2^53, and for every sub-second unit with
\* n * nanos_per_unit <= 4_294_967_295.
C9_PathsAgree ==
    (/\ pc = "done"
     /\ operand.ty = "f64"
     /\ IsU64(operand.f)
     /\ IF method \in SubSecond
        THEN BLe(BMul(TruncNat(operand.f), BFromInt(NanosPerUnit(method))), U32MAX)
        ELSE BLt(BMul(TruncNat(operand.f), BFromInt(Factor(method))), BPow2(MantBits))) =>
        result = U64Method(method, TruncNat(operand.f), build)

\* C9 witness: 1500.0.millis() has returned (1, 500_000_000), as 1500.millis().
C9_Witness ==
    /\ DoneF64({"millis"})
    /\ operand.f = F64Num(FALSE, BFromInt(1500), 0)
    /\ result = Duration(<<1>>, BFromInt(500000000))
    /\ result = u64_millis(BFromInt(1500))

\* C10: the fractional sub-second conversions clamp and never panic: for
\* every f64 operand, NaN, negative and huge ones included, the result is
\* clamp(trunc(f * nanos_per_unit), 0, 4_294_967_295) nanoseconds long.
C10_Clamped ==
    DoneF64(SubSecond) =>
        /\ result.kind = "duration"
        /\ TotalNanos(result) = ClampedNanos(ScaledNanos(operand.f, method))
        /\ BLe(TotalNanos(result), U32MAX)

\* C10 witness: 5000.0.millis() has returned 4.294967295 s.
C10_Witness ==
    /\ DoneF64({"millis"})
    /\ operand.f = F64Num(FALSE, BFromInt(5000), 0)
    /\ TotalNanos(result) = U32MAX
    /\ result.secs = <<4>>
====
